---------------------------- MODULE Spec2Model ----------------------------
(***************************************************************************)
(* Model of the unusual-options-activity detector:                         *)
(*   src/dynamicThreshold.py  DynamicThresholdCalculator                   *)
(*   src/detector.py          OptionsDetector                              *)
(*   src/report.py            OptionsReport                                *)
(*   src/main.py              generate_readable_report                     *)
(*                                                                         *)
(* Numbers.  A float is modelled exactly as a pair <<n, d>>:               *)
(*   d > 0          the rational n/d                                       *)
(*   <<0, 0>>       NaN                                                    *)
(*   <<-1, 0>>      -inf          <<1, 0>>   +inf                          *)
(* Comparisons with NaN are FALSE, as in IEEE/numpy.  A volatility (a      *)
(* standard deviation times sqrt(252)) is kept as the pair of its squared  *)
(* un-normalised value, see rolling_std; only comparisons between such     *)
(* values and with rational constants are taken, which the square keeps.   *)
(***************************************************************************)
EXTENDS Integers, Sequences, FiniteSets, TLC

VARIABLES
    thresholds,            \* OptionsDetector.thresholds ({} when empty)
    threshold_calculator,  \* the DynamicThresholdCalculator built last
    historical_data,       \* generate_comprehensive_report: historical_data
    options_data,          \* the caller's normalized chain (a DataFrame)
    put_call_metrics,      \* result of calculate_put_call_ratio
    flow_metrics,          \* result of track_options_flow
    unusual_spreads,       \* result of detect_unusual_spreads
    volatility_skew,       \* result of analyze_volatility_surface
    report,                \* value returned by generate_comprehensive_report
    interpretation,        \* value returned by interpret_unusual_activity
    spot,                  \* stock.info["currentPrice"] as last read, else 0
    pc                     \* position of the caller

vars == <<thresholds, threshold_calculator, historical_data, options_data,
          put_call_metrics, flow_metrics, unusual_spreads, volatility_skew,
          report, interpretation, spot, pc>>

---------------------------------------------------------------------------
(* Exact arithmetic on floats-as-pairs                                     *)

\* Python's None, an empty dict, and a raised exception
None == [none |-> TRUE]

Empty == [empty |-> TRUE]

Raise == [raise |-> TRUE]

Raises(x) == "raise" \in DOMAIN x

NaN == <<0, 0>>

Abs(x) == IF x < 0 THEN -x ELSE x

Sign(x) == IF x > 0 THEN 1 ELSE IF x < 0 THEN -1 ELSE 0

\* numerator / denominator as numpy divides: x/0 is +-inf, 0/0 is NaN
Div(n, d) == IF d = 0 THEN <<Sign(n), 0>>
             ELSE IF d < 0 THEN <<-n, -d>> ELSE <<n, d>>

IsFinite(x) == x[2] > 0

Gt(a, b) == IsFinite(a) /\ IsFinite(b) /\ a[1] * b[2] > b[1] * a[2]

Lt(a, b) == Gt(b, a)

Eq(a, b) == IsFinite(a) /\ IsFinite(b) /\ a[1] * b[2] = b[1] * a[2]

RECURSIVE SumSeq(_)
SumSeq(s) == IF s = <<>> THEN 0 ELSE Head(s) + SumSeq(Tail(s))

RECURSIVE Gcd(_, _)
Gcd(a, b) == IF b = 0 THEN a ELSE Gcd(b, a % b)

RECURSIVE GcdSeq(_)
GcdSeq(s) == IF s = <<>> THEN 0 ELSE Gcd(Abs(Head(s)), GcdSeq(Tail(s)))

RECURSIVE ProdSet(_)
ProdSet(S) == IF S = {} THEN 1
              ELSE LET x == CHOOSE y \in S : TRUE IN x * ProdSet(S \ {x})

\* pandas Series.median(): NaN entries skipped, the middle value of the
\* sorted rest, or the mean of the two middle values; NaN when none is left
Before(s, i, j) == Lt(s[i], s[j]) \/ (Eq(s[i], s[j]) /\ i < j)

Kth(s, k) == s[CHOOSE i \in DOMAIN s :
                 Cardinality({j \in DOMAIN s : Before(s, j, i)}) = k - 1]

median(col) ==
    LET s == SelectSeq(col, IsFinite)
        m == Len(s)
    IN  IF m = 0 THEN NaN
        ELSE IF m % 2 = 1 THEN Kth(s, (m + 1) \div 2)
        ELSE LET a == Kth(s, m \div 2)
                 b == Kth(s, m \div 2 + 1)
             IN  <<a[1] * b[2] + b[1] * a[2], 2 * a[2] * b[2]>>

---------------------------------------------------------------------------
(* Price history: pct_change, rolling std, percentile rank                 *)

\* rolling(window=20) in dynamicThreshold.py and detector.py
Window == 20

\* closes a bar may take; every close divides CloseScale, so that a return
\* times CloseScale is an integer
CloseValues == {2, 4}

CloseScale == ProdSet(CloseValues)

\* Series.pct_change(periods): c[i]/c[i-periods] - 1, NaN on the first rows
pct_change(close, periods) ==
    [i \in DOMAIN close |->
        IF i <= periods THEN NaN
        ELSE Div(close[i] - close[i - periods], close[i - periods])]

\* CloseScale * r for a defined return r
Scaled(r) == (CloseScale * r[1]) \div r[2]

\* Series.rolling(window=20).std() * sqrt(252): defined once the window
\* holds 20 defined returns.  With R = CloseScale * r the value kept is
\*   v = 20 * Sum(R^2) - Sum(R)^2,   std^2 = v / (20 * 19 * CloseScale^2)
rolling_std(returns) ==
    [i \in DOMAIN returns |->
        IF i < Window \/ \E j \in (i - Window + 1)..i : ~IsFinite(returns[j])
        THEN NaN
        ELSE LET R == [j \in 1..Window |-> Scaled(returns[i - Window + j])]
                 S == SumSeq(R)
                 Q == SumSeq([j \in 1..Window |-> R[j] * R[j]])
             IN  <<Window * Q - S * S, 1>>]

\* Series.rank(pct=True)[i]: average rank among the defined values over the
\* number of defined values; NaN for a NaN entry
rank_pct(col, i) ==
    IF ~IsFinite(col[i]) THEN NaN
    ELSE LET less == Cardinality({j \in DOMAIN col : Lt(col[j], col[i])})
             same == Cardinality({j \in DOMAIN col : Eq(col[j], col[i])})
             cnt  == Cardinality({j \in DOMAIN col : IsFinite(col[j])})
         IN  <<2 * less + same + 1, 2 * cnt>>

\* a volatility value times a factor given in tenths: factor * sqrt(252) * std
times(vol, tenths) == [factor |-> tenths, vol |-> vol]

\* DynamicThresholdCalculator.calculate_volatility_based_threshold (values
\* in tenths); Raise is the IndexError of .iloc[-1] on an empty series
calculate_volatility_based_threshold(hist) ==
    LET returns     == pct_change(hist.Close, 1)
        rolling_vol == rolling_std(returns)
        n           == Len(hist.Close)
    IN  IF n = 0 THEN Raise
        ELSE LET vol_percentile == rank_pct(rolling_vol, n)
             IN  IF Gt(vol_percentile, <<8, 10>>)
                 THEN [price_move_threshold |-> times(rolling_vol[n], 5),
                       volume_threshold |-> 25, iv_threshold |-> 18]
                 ELSE IF Lt(vol_percentile, <<2, 10>>)
                 THEN [price_move_threshold |-> times(rolling_vol[n], 15),
                       volume_threshold |-> 40, iv_threshold |-> 25]
                 ELSE [price_move_threshold |-> times(rolling_vol[n], 10),
                       volume_threshold |-> 30, iv_threshold |-> 20]

---------------------------------------------------------------------------
(* DataFrames: a sequence of rows, each row a record of its columns        *)

DataFrame(rows) == [rows |-> rows]

\* df[name] = values: the column is added to, or overwritten in, every row
SetColumn(df, name, values) ==
    [i \in DOMAIN df |->
        [f \in DOMAIN df[i] \cup {name} |->
            IF f = name THEN values[i] ELSE df[i][f]]]

Column(df, name) == [i \in DOMAIN df |-> df[i][name]]

HasColumn(df, name) == \A i \in DOMAIN df : name \in DOMAIN df[i]

\* df[mask]: the rows whose index satisfies the mask, in order
RECURSIVE Filter(_, _, _)
Filter(df, mask, i) ==
    IF i > Len(df) THEN <<>>
    ELSE (IF mask[i] THEN <<df[i]>> ELSE <<>>) \o Filter(df, mask, i + 1)

RECURSIVE Concat(_)
Concat(ss) == IF ss = <<>> THEN <<>> ELSE Head(ss) \o Concat(Tail(ss))

\* OptionsDetector.analyze_options_chain on the provider's per-expiration
\* tables; Raise is pd.concat([]) when there is no expiration
tag(rows, type, exp) ==
    [i \in DOMAIN rows |->
        [strike |-> rows[i].strike, bid |-> rows[i].bid, ask |-> rows[i].ask,
         lastPrice |-> rows[i].lastPrice, volume |-> rows[i].volume,
         openInterest |-> rows[i].openInterest,
         impliedVolatility |-> rows[i].impliedVolatility,
         type |-> type, expiration |-> exp,
         bid_ask_spread |-> rows[i].ask - rows[i].bid,
         spread_percentage |->
             Div(100 * (rows[i].ask - rows[i].bid), rows[i].ask)]]

analyze_options_chain(chains) ==
    IF chains = <<>> THEN Raise
    ELSE DataFrame(Concat([e \in DOMAIN chains |->
                    tag(chains[e].calls, "call", chains[e].expiration)
                    \o tag(chains[e].puts, "put", chains[e].expiration)]))

\* DynamicThresholdCalculator.calculate_liquidity_based_threshold: the
\* relative_spread column it adds to its options_data ...
relative_spread(df) ==
    [i \in DOMAIN df |-> Div(2 * (df[i].ask - df[i].bid), df[i].ask + df[i].bid)]

\* the low-liquidity test with a boundary taken in: median volume <= 100
calculate_liquidity_based_threshold_le(df) ==
    LET median_spread == median(relative_spread(df))
        median_volume == median([i \in DOMAIN df |-> <<df[i].volume, 1>>])
    IN  IF Gt(median_spread, <<5, 100>>) \/ ~Gt(median_volume, <<100, 1>>)
        THEN [spread_threshold |-> 30, volume_multiplier |-> 20,
              oi_threshold |-> 15]
        ELSE IF Lt(median_spread, <<2, 100>>) /\ Gt(median_volume, <<1000, 1>>)
        THEN [spread_threshold |-> 50, volume_multiplier |-> 40,
              oi_threshold |-> 25]
        ELSE [spread_threshold |-> 40, volume_multiplier |-> 30,
              oi_threshold |-> 20]

\* ... and the thresholds it returns (tenths)
calculate_liquidity_based_threshold(df) ==
    LET median_spread == median(relative_spread(df))
        median_volume == median([i \in DOMAIN df |-> <<df[i].volume, 1>>])
    IN  IF Gt(median_spread, <<5, 100>>) \/ Lt(median_volume, <<100, 1>>)
        THEN [spread_threshold |-> 30, volume_multiplier |-> 20,
              oi_threshold |-> 15]
        ELSE IF Lt(median_spread, <<2, 100>>) /\ Gt(median_volume, <<1000, 1>>)
        THEN [spread_threshold |-> 50, volume_multiplier |-> 40,
              oi_threshold |-> 25]
        ELSE [spread_threshold |-> 40, volume_multiplier |-> 30,
              oi_threshold |-> 20]

\* OptionsDetector.initialize_dynamic_thresholds, lines 28-35: price_move,
\* iv, spread and oi in tenths, volume (a product of two) in hundredths
combine(vol_thresholds, liq_thresholds) ==
    [price_move |-> vol_thresholds.price_move_threshold,
     volume     |-> vol_thresholds.volume_threshold
                        * liq_thresholds.volume_multiplier,
     iv         |-> vol_thresholds.iv_threshold,
     spread     |-> liq_thresholds.spread_threshold,
     oi         |-> liq_thresholds.oi_threshold]

---------------------------------------------------------------------------
(* Metrics of OptionsDetector                                              *)

Zero == <<0, 1>>

SumWhere(df, type, col) ==
    SumSeq([i \in DOMAIN df |-> IF df[i].type = type THEN df[i][col] ELSE 0])

\* the open-interest guard testing the call volume instead of call_oi
calculate_put_call_ratio_one_guard(df) ==
    LET call_volume == SumWhere(df, "call", "volume")
        put_volume  == SumWhere(df, "put", "volume")
        call_oi     == SumWhere(df, "call", "openInterest")
        put_oi      == SumWhere(df, "put", "openInterest")
    IN  [volume_put_call_ratio |->
             IF call_volume > 0 THEN Div(put_volume, call_volume) ELSE Zero,
         oi_put_call_ratio |->
             IF call_volume > 0 THEN Div(put_oi, call_oi) ELSE Zero]

\* OptionsDetector.calculate_put_call_ratio
calculate_put_call_ratio(df) ==
    LET call_volume == SumWhere(df, "call", "volume")
        put_volume  == SumWhere(df, "put", "volume")
        call_oi     == SumWhere(df, "call", "openInterest")
        put_oi      == SumWhere(df, "put", "openInterest")
    IN  [volume_put_call_ratio |->
             IF call_volume > 0 THEN Div(put_volume, call_volume) ELSE Zero,
         oi_put_call_ratio |->
             IF call_oi > 0 THEN Div(put_oi, call_oi) ELSE Zero]

\* OptionsDetector.track_options_flow, line 117
dollar_volume(df) == [i \in DOMAIN df |-> df[i].volume * df[i].lastPrice * 100]

\* lines 123-126 and 127-130: the two row masks
bullish_mask(df) ==
    [i \in DOMAIN df |->
        \/ (df[i].type = "call" /\ df[i].lastPrice > df[i].bid)
        \/ (df[i].type = "put" /\ df[i].lastPrice < df[i].ask)]

bearish_mask(df) ==
    [i \in DOMAIN df |->
        \/ (df[i].type = "put" /\ df[i].lastPrice > df[i].bid)
        \/ (df[i].type = "call" /\ df[i].lastPrice < df[i].ask)]

\* lines 132-136, on the chain that already carries dollar_volume
flow_totals(df) ==
    LET bullish_flow == Filter(df, bullish_mask(df), 1)
        bearish_flow == Filter(df, bearish_mask(df), 1)
        bull == SumSeq(Column(bullish_flow, "dollar_volume"))
        bear == SumSeq(Column(bearish_flow, "dollar_volume"))
    IN  [bullish_flow |-> bull, bearish_flow |-> bear, net_flow |-> bull - bear]

\* scipy.stats.zscore(col), population mean and std, NaN propagating: one
\* NaN or infinite entry, or a zero std, makes every score NaN.  The score
\* of entry i is dev / sqrt(sq), with the entries brought to their common
\* denominator and divided by their common factor (the score keeps under
\* scaling):  dev = N * y[i] - Sum(y),  sq = N * Sum(y^2) - Sum(y)^2
\* and a NaN score is ZNaN
ZNaN == [dev |-> 0, sq |-> 0]

zscore(col) ==
    IF \E i \in DOMAIN col : ~IsFinite(col[i])
    THEN [i \in DOMAIN col |-> ZNaN]
    ELSE LET P  == ProdSet({col[i][2] : i \in DOMAIN col})
             y0 == [i \in DOMAIN col |-> col[i][1] * (P \div col[i][2])]
             g  == GcdSeq(y0)
             y  == [i \in DOMAIN col |-> IF g = 0 THEN 0 ELSE y0[i] \div g]
             N  == Len(col)
             S  == SumSeq(y)
             Q  == SumSeq([i \in DOMAIN col |-> y[i] * y[i]])
             sq == N * Q - S * S
         IN  [i \in DOMAIN col |->
                 IF sq = 0 THEN ZNaN ELSE [dev |-> N * y[i] - S, sq |-> sq]]

\* z > cutoff, the cutoff in tenths
ZGt(z, tenths) ==
    z # ZNaN /\ z.dev > 0 /\ 100 * z.dev * z.dev > tenths * tenths * z.sq

\* OptionsDetector.detect_unusual_spreads, lines 149-152, on the chain that
\* already carries spread_z_score
unusual_mask(df, th) ==
    [i \in DOMAIN df |->
        /\ ZGt(df[i].spread_z_score, th.spread)
        /\ 100 * df[i].volume > th.volume]

\* pd.pivot_table(values='impliedVolatility', index='strike',
\* columns='expiration'): the sorted strikes, the expirations, and the mean
\* of a cell (NaN for a cell without a row)
RECURSIVE Sorted(_)
Sorted(S) == IF S = {} THEN <<>>
             ELSE LET m == CHOOSE x \in S : \A y \in S : x <= y
                  IN  <<m>> \o Sorted(S \ {m})

pivot_index(df) == Sorted({df[i].strike : i \in DOMAIN df})

pivot_columns(df) == {df[i].expiration : i \in DOMAIN df}

pivot_cell(df, strike, exp) ==
    LET rows == {i \in DOMAIN df : df[i].strike = strike /\ df[i].expiration = exp}
    IN  Div(SumSeq([i \in DOMAIN df |->
                       IF i \in rows THEN df[i].impliedVolatility ELSE 0]),
            Cardinality(rows))

\* np.abs(index - atm_strike).argsort()[:2]: the positions of the two
\* strikes closest to spot, the earlier position first among equals
closest_strikes(index, atm_strike) ==
    LET dist(i) == Abs(index[i] - atm_strike)
        before(j, i) == dist(j) < dist(i) \/ (dist(j) = dist(i) /\ j < i)
    IN  {i \in DOMAIN index :
            Cardinality({j \in DOMAIN index : before(j, i)}) < 2}

\* Series.mean() of the chosen cells, NaN cells skipped
mean_cells(cells) ==
    LET s == SelectSeq(cells, IsFinite)
    IN  IF s = <<>> THEN NaN
        ELSE IF Len(s) = 1 THEN s[1]
        ELSE <<s[1][1] * s[2][2] + s[2][1] * s[1][2], 2 * s[1][2] * s[2][2]>>

\* OptionsDetector.analyze_volatility_surface
analyze_volatility_surface(df, atm_strike) ==
    LET index   == pivot_index(df)
        closest == Sorted(closest_strikes(index, atm_strike))
    IN  [skew |-> [exp \in pivot_columns(df) |->
            mean_cells([k \in DOMAIN closest |->
                           pivot_cell(df, index[closest[k]], exp)])]]

---------------------------------------------------------------------------
(* Report and interpretation, src/report.py                                *)

\* OptionsDetector.analyze_price_movement: the columns added to the history
analyze_price_movement(hd) ==
    LET Returns == pct_change(hd.Close, 1)
    IN  [Close |-> hd.Close,
         Returns |-> Returns,
         Historical_Volatility |-> rolling_std(Returns),
         momentum_5_day |-> pct_change(hd.Close, 5),
         momentum_20_day |-> pct_change(hd.Close, 20)]

\* OptionsReport.generate_comprehensive_report, lines 30-46; Raise is the
\* IndexError of .iloc[-1] on an empty history
compile_report(hd, pcm, fm, us, skew) ==
    LET n == Len(hd.Close)
    IN  IF n = 0 THEN Raise
        ELSE [price_analysis |->
                 [current_price |-> hd.Close[n],
                  daily_return |-> hd.Returns[n],
                  historical_volatility |-> hd.Historical_Volatility[n],
                  momentum_5_day |-> hd.momentum_5_day[n],
                  momentum_20_day |-> hd.momentum_20_day[n]],
              options_metrics |->
                 [put_call_ratios |-> pcm,
                  options_flow |-> fm,
                  unusual_spreads_count |-> Len(us.rows),
                  volatility_skew |-> skew]]

AbsNum(x) == <<Abs(x[1]), x[2]>>

\* sqrt(252) * std > num/den for a volatility kept as in rolling_std
VolGt(v, num, den) ==
    /\ IsFinite(v)
    /\ 252 * v[1] * den * den
         > Window * (Window - 1) * CloseScale * CloseScale * num * num * v[2]

Finding(category, detail) == [category |-> category, detail |-> detail]

\* OptionsReport.interpret_unusual_activity: the findings, in order
interpretations_of(rep) ==
    LET price_data   == rep.price_analysis
        daily_return == <<price_data.daily_return[1] * 100,
                          price_data.daily_return[2]>>
        net_flow     == rep.options_metrics.options_flow.net_flow
        volume_pc    == rep.options_metrics.put_call_ratios.volume_put_call_ratio
        count        == rep.options_metrics.unusual_spreads_count
    IN  (IF Gt(AbsNum(daily_return), <<2, 1>>)
         THEN <<Finding("price", IF Gt(daily_return, Zero)
                                 THEN "increase" ELSE "decrease")>>
         ELSE <<>>)
        \o (IF VolGt(price_data.historical_volatility, 50, 100)
            THEN <<Finding("volatility", "elevated")>> ELSE <<>>)
        \o (IF Abs(net_flow) > 1000000
            THEN <<Finding("flow", IF net_flow > 0 THEN "bullish" ELSE "bearish")>>
            ELSE <<>>)
        \o (IF Gt(volume_pc, <<15, 10>>) THEN <<Finding("put_call", "bearish")>>
            ELSE IF Lt(volume_pc, <<5, 10>>) THEN <<Finding("put_call", "bullish")>>
            ELSE <<>>)
        \o (IF count > 0 THEN <<Finding("spreads", "unusual")>> ELSE <<>>)

\* ... and the alerts, in order
alerts_of(rep) ==
    LET price_data   == rep.price_analysis
        daily_return == <<price_data.daily_return[1] * 100,
                          price_data.daily_return[2]>>
        net_flow     == rep.options_metrics.options_flow.net_flow
        volume_pc    == rep.options_metrics.put_call_ratios.volume_put_call_ratio
        count        == rep.options_metrics.unusual_spreads_count
    IN  (IF Gt(AbsNum(daily_return), <<2, 1>>)
            /\ Gt(AbsNum(daily_return), <<5, 1>>)
         THEN <<Finding("price", "large")>> ELSE <<>>)
        \o (IF Abs(net_flow) > 1000000 /\ Abs(net_flow) > 5000000
            THEN <<Finding("flow", IF net_flow > 0 THEN "bullish" ELSE "bearish")>>
            ELSE <<>>)
        \o (IF Gt(volume_pc, <<15, 10>>)
            THEN (IF Gt(volume_pc, <<20, 10>>)
                  THEN <<Finding("put_call", "puts")>> ELSE <<>>)
            ELSE IF Lt(volume_pc, <<5, 10>>) /\ Lt(volume_pc, <<3, 10>>)
            THEN <<Finding("put_call", "calls")>>
            ELSE <<>>)
        \o (IF count > 0 /\ count > 5
            THEN <<Finding("spreads", "multiple")>> ELSE <<>>)

\* interpretations[:3]
FirstN(s, n) == SubSeq(s, 1, IF Len(s) < n THEN Len(s) ELSE n)

\* HIGH already at two alerts
generate_summary_ge(interpretations, alerts) ==
    IF alerts = <<>> /\ interpretations = <<>>
    THEN [message |-> "No significant unusual options activity detected",
          severity |-> "", alert_count |-> 0, key_findings |-> <<>>]
    ELSE LET alert_count == Len(alerts)
         IN  [message |-> "Unusual Activity Level",
              severity |-> IF alert_count >= 2 THEN "HIGH"
                           ELSE IF alert_count > 0 THEN "MEDIUM" ELSE "LOW",
              alert_count |-> alert_count,
              key_findings |-> FirstN(interpretations, 3)]

\* OptionsReport.generate_summary: the parts of the returned text
generate_summary(interpretations, alerts) ==
    IF alerts = <<>> /\ interpretations = <<>>
    THEN [message |-> "No significant unusual options activity detected",
          severity |-> "", alert_count |-> 0, key_findings |-> <<>>]
    ELSE LET alert_count == Len(alerts)
         IN  [message |-> "Unusual Activity Level",
              severity |-> IF alert_count > 2 THEN "HIGH"
                           ELSE IF alert_count > 0 THEN "MEDIUM" ELSE "LOW",
              alert_count |-> alert_count,
              key_findings |-> FirstN(interpretations, 3)]

interpret_unusual_activity(rep) ==
    [summary |-> generate_summary(interpretations_of(rep), alerts_of(rep)),
     detailed_interpretations |-> interpretations_of(rep),
     alerts |-> alerts_of(rep)]

---------------------------------------------------------------------------
(* What the Market Data Provider may return                                *)

\* longest price history, and number of equal tight-spread contracts in a
\* large chain
MaxBars == 26

MaxTight == 10

\* stock.history(...): closes at 4 with dips to 2 on the given bars
history(n, dips) == [i \in 1..n |-> IF i \in dips THEN 2 ELSE 4]

HistLens == {0, 5, Window, Window + 1, Window + 2, Window + 5, MaxBars}

DipSets == {{}, {3, 5}, {Window + 2}}

HistPool == {history(n, dips) : n \in HistLens, dips \in DipSets}

SessionHists == {history(0, {}), history(5, {}), history(Window + 1, {}),
                 history(MaxBars, {3, 5})}

\* one row of stock.option_chain(exp).calls or .puts; prices in ticks,
\* implied volatility in hundredths
Row(strike, bid, ask, lastPrice, volume, openInterest, iv) ==
    [strike |-> strike, bid |-> bid, ask |-> ask, lastPrice |-> lastPrice,
     volume |-> volume, openInterest |-> openInterest,
     impliedVolatility |-> iv]

Chain(exp, calls, puts) == [expiration |-> exp, calls |-> calls, puts |-> puts]

Rep(row, n) == [i \in 1..n |-> row]

\* chains of one contract: relative spreads 0.05, above 0.05, 0.02, below
\* 0.02 and undefined, volumes around 100 and 1000
LiquidityChains ==
    {<<Chain(1, <<Row(100, ba[1], ba[2], ba[2], v, 50, 30)>>, <<>>)>> :
        ba \in {<<39, 41>>, <<38, 41>>, <<99, 101>>, <<199, 201>>, <<0, 0>>},
        v \in {99, 100, 1000, 1001}}
    \cup
    {<<Chain(1, <<Row(100, 199, 201, 200, v, 50, 30)>>,
                <<Row(100, 199, 201, 200, 1001, 50, 30)>>)>> : v \in {99, 1000}}

\* one contract per side, every order of lastPrice, bid and ask
FlowChains ==
    {<<Chain(1, <<Row(100, 2, a, l, 10, 5, 30)>>, <<Row(100, 2, b, m, 7, 5, 30)>>)>> :
        a \in {0, 4}, l \in {1, 2, 3, 4, 5}, b \in {4}, m \in {1, 3, 5}}

\* up to two calls and one put, volumes and open interests zero or not
VolOi == {<<v, o>> : v \in {0, 10}, o \in {0, 7}}

UpTo(S, n) == UNION {[1..k -> S] : k \in 0..n}

PcrChains ==
    {<<Chain(1, [i \in DOMAIN cs |-> Row(100, 3, 4, 4, cs[i][1], cs[i][2], 30)],
                [i \in DOMAIN ps |-> Row(100, 3, 4, 3, ps[i][1], ps[i][2], 30)])>> :
        cs \in UpTo(VolOi, 2), ps \in UpTo(VolOi, 1)}
    \ {<<Chain(1, <<>>, <<>>)>>}

\* many tight contracts, then a wide one and contracts quoted with ask = 0
Tight == Row(100, 3, 4, 4, 10, 50, 30)

Wide == Row(105, 1, 4, 2, 50, 50, 40)

ZeroAsk == Row(110, 1, 0, 1, 50, 50, 40)

ZeroBoth == Row(110, 0, 0, 1, 50, 50, 40)

SpreadChains ==
    {<<Chain(1, Rep(Tight, MaxTight) \o extra, <<>>)>> :
        extra \in {<<>>, <<Wide>>, <<Wide, ZeroAsk>>, <<Wide, ZeroBoth>>,
                   <<ZeroAsk>>, <<Wide, Wide>>}}

\* two expirations listing the same or different strikes
SkewChains ==
    {<<Chain(1, <<Row(100, 3, 4, 4, 10, 50, 30)>>, <<Row(k1, 3, 4, 3, 20, 40, 34)>>),
       Chain(2, <<Row(k2, 3, 4, 4, 10, 50, 40)>>, <<>>)>> :
        k1 \in {100, 105}, k2 \in {100, 105, 150}}

ChainPool == FlowChains \cup PcrChains \cup SpreadChains \cup SkewChains

NoExpirations == <<>>

SessionChains ==
    {NoExpirations,
     <<Chain(1, <<Row(100, 3, 4, 4, 10, 50, 30)>>, <<Row(100, 3, 4, 3, 20, 40, 34)>>)>>,
     <<Chain(1, <<Row(100, 199, 201, 200, 2000, 50, 30)>>, <<>>),
       Chain(2, <<Row(150, 199, 201, 200, 2000, 50, 40)>>, <<>>)>>}

Spots == {100, 103}

---------------------------------------------------------------------------
(* The detector's threshold cache                                          *)

\* OptionsDetector.initialize_dynamic_thresholds on the history h and the
\* option tables c the provider returns to it: whether it raised, and the
\* thresholds and the calculator object it leaves
initialize_dynamic_thresholds(h, c) ==
    LET hd == [Close |-> h]
        od == analyze_options_chain(c)
    IN  IF Raises(od)
        THEN [raised |-> TRUE, thresholds |-> thresholds,
              threshold_calculator |-> threshold_calculator]
        ELSE LET vol_thresholds == calculate_volatility_based_threshold(hd)
             IN  IF Raises(vol_thresholds)
                 THEN [raised |-> TRUE, thresholds |-> thresholds,
                       threshold_calculator |->
                           [historical_data |-> hd, options_data |-> od]]
                 ELSE [raised |-> FALSE,
                       thresholds |->
                           combine(vol_thresholds,
                                   calculate_liquidity_based_threshold(od.rows)),
                       threshold_calculator |->
                           [historical_data |-> hd,
                            options_data |->
                                DataFrame(SetColumn(od.rows, "relative_spread",
                                                    relative_spread(od.rows)))]]

\* the cache test left out: thresholds recomputed on every call
lazy_thresholds_always(h, c) == initialize_dynamic_thresholds(h, c)

\* "if not self.thresholds: self.initialize_dynamic_thresholds()"
lazy_thresholds(h, c) ==
    IF thresholds = Empty
    THEN initialize_dynamic_thresholds(h, c)
    ELSE [raised |-> FALSE, thresholds |-> thresholds,
          threshold_calculator |-> threshold_calculator]

---------------------------------------------------------------------------
(* Actions                                                                 *)

Init ==
    /\ thresholds = Empty
    /\ threshold_calculator = None
    /\ historical_data = None
    /\ options_data = None
    /\ put_call_metrics = None
    /\ flow_metrics = None
    /\ unusual_spreads = None
    /\ volatility_skew = None
    /\ report = None
    /\ interpretation = None
    /\ spot = 0
    /\ pc = "idle"

detector == <<thresholds, threshold_calculator>>

results == <<put_call_metrics, flow_metrics, unusual_spreads, volatility_skew, spot>>

NoResults ==
    /\ put_call_metrics' = None
    /\ flow_metrics' = None
    /\ unusual_spreads' = None
    /\ volatility_skew' = None
    /\ spot' = 0

\* an exception leaves the frames as they are and reaches the caller
raise ==
    /\ pc' = "raised"
    /\ UNCHANGED <<historical_data, options_data, results, report, interpretation>>

\* generate_readable_report -> generate_comprehensive_report, line 19
get_historical_data ==
    /\ pc \in {"idle", "raised"}
    /\ \E h \in SessionHists : historical_data' = [Close |-> h]
    /\ options_data' = None
    /\ NoResults
    /\ report' = None
    /\ interpretation' = None
    /\ pc' = "analyze_price_movement"
    /\ UNCHANGED detector

\* line 20
price_movement ==
    /\ pc = "analyze_price_movement"
    /\ historical_data' = analyze_price_movement(historical_data)
    /\ pc' = "analyze_options_chain"
    /\ UNCHANGED <<detector, options_data, results, report, interpretation>>

\* line 21
options_chain ==
    /\ pc = "analyze_options_chain"
    /\ \E c \in SessionChains :
          LET od == analyze_options_chain(c)
          IN  IF Raises(od) THEN raise
              ELSE /\ options_data' = od
                   /\ pc' = "calculate_put_call_ratio"
                   /\ UNCHANGED <<historical_data, results, report, interpretation>>
    /\ UNCHANGED detector

\* a client of the detector fetches a chain for itself (main.py, line 11)
client_chain ==
    /\ pc \in {"idle", "raised"}
    /\ \E c \in SessionChains :
          LET od == analyze_options_chain(c)
          IN  IF Raises(od)
              THEN /\ pc' = "raised"
                   /\ options_data' = None
              ELSE /\ pc' = "idle"
                   /\ options_data' = od
    /\ historical_data' = None
    /\ NoResults
    /\ report' = None
    /\ interpretation' = None
    /\ UNCHANGED detector

\* the ratio computed after tagging the calls in a new column of the chain
put_call_ratio_tagging(here, next) ==
    /\ pc = here
    /\ options_data # None
    /\ put_call_metrics' = calculate_put_call_ratio(options_data.rows)
    /\ options_data' =
           DataFrame(SetColumn(options_data.rows, "is_call",
                               [i \in DOMAIN options_data.rows |->
                                   options_data.rows[i].type = "call"]))
    /\ pc' = next
    /\ UNCHANGED <<detector, historical_data, flow_metrics,
                   unusual_spreads, volatility_skew, spot, report, interpretation>>

\* calculate_put_call_ratio(options_data), called at `here`, returning to `next`
put_call_ratio(here, next) ==
    /\ pc = here
    /\ options_data # None
    /\ put_call_metrics' = calculate_put_call_ratio(options_data.rows)
    /\ pc' = next
    /\ UNCHANGED <<detector, historical_data, options_data, flow_metrics,
                   unusual_spreads, volatility_skew, spot, report, interpretation>>

\* track_options_flow(options_data)
track_options_flow(here, next) ==
    /\ pc = here
    /\ options_data # None
    /\ \E h \in SessionHists, c \in SessionChains :
          LET r == lazy_thresholds(h, c)
              df == SetColumn(options_data.rows, "dollar_volume",
                              dollar_volume(options_data.rows))
          IN  /\ thresholds' = r.thresholds
              /\ threshold_calculator' = r.threshold_calculator
              /\ IF r.raised THEN raise
                 ELSE /\ options_data' = DataFrame(df)
                      /\ flow_metrics' = flow_totals(df)
                      /\ pc' = next
                      /\ UNCHANGED <<historical_data, put_call_metrics,
                                     unusual_spreads, volatility_skew, spot,
                                     report, interpretation>>

\* detect_unusual_spreads(options_data)
detect_unusual_spreads(here, next) ==
    /\ pc = here
    /\ options_data # None
    /\ \E h \in SessionHists, c \in SessionChains :
          LET r == lazy_thresholds(h, c)
              df == SetColumn(options_data.rows, "spread_z_score",
                              zscore(Column(options_data.rows, "spread_percentage")))
          IN  /\ thresholds' = r.thresholds
              /\ threshold_calculator' = r.threshold_calculator
              /\ IF r.raised THEN raise
                 ELSE /\ options_data' = DataFrame(df)
                      /\ unusual_spreads' =
                             DataFrame(Filter(df, unusual_mask(df, r.thresholds), 1))
                      /\ pc' = next
                      /\ UNCHANGED <<historical_data, put_call_metrics,
                                     flow_metrics, volatility_skew, spot,
                                     report, interpretation>>

\* analyze_volatility_surface(options_data)
volatility_surface(here, next) ==
    /\ pc = here
    /\ options_data # None
    /\ \E atm_strike \in Spots :
          /\ spot' = atm_strike
          /\ volatility_skew' = analyze_volatility_surface(options_data.rows, atm_strike)
    /\ pc' = next
    /\ UNCHANGED <<detector, historical_data, options_data, put_call_metrics,
                   flow_metrics, unusual_spreads, report, interpretation>>

\* generate_comprehensive_report, lines 30-46: the report is returned and
\* the locals are gone
compile ==
    /\ pc = "compile"
    /\ LET rep == compile_report(historical_data, put_call_metrics, flow_metrics,
                                 unusual_spreads, volatility_skew)
       IN  IF Raises(rep) THEN raise
           ELSE /\ report' = rep
                /\ historical_data' = None
                /\ options_data' = None
                /\ NoResults
                /\ pc' = "interpret"
                /\ UNCHANGED interpretation
    /\ UNCHANGED detector

\* generate_readable_report, main.py line 52
interpret ==
    /\ pc = "interpret"
    /\ interpretation' = interpret_unusual_activity(report)
    /\ pc' = "idle"
    /\ UNCHANGED <<detector, historical_data, options_data, results, report>>

\* the four metric calls of generate_comprehensive_report, lines 24-27
report_put_call_ratio == put_call_ratio("calculate_put_call_ratio", "track_options_flow")

report_options_flow == track_options_flow("track_options_flow", "detect_unusual_spreads")

report_unusual_spreads == detect_unusual_spreads("detect_unusual_spreads", "analyze_volatility_surface")

report_volatility_surface == volatility_surface("analyze_volatility_surface", "compile")

\* the same four operations called by a client on the chain it holds
client_put_call_ratio == put_call_ratio("idle", "idle")

client_options_flow == track_options_flow("idle", "idle")

client_unusual_spreads == detect_unusual_spreads("idle", "idle")

client_volatility_surface == volatility_surface("idle", "idle")

Next ==
    \/ get_historical_data
    \/ price_movement
    \/ options_chain
    \/ report_put_call_ratio
    \/ report_options_flow
    \/ report_unusual_spreads
    \/ report_volatility_surface
    \/ compile
    \/ interpret
    \/ client_chain
    \/ client_put_call_ratio
    \/ client_options_flow
    \/ client_unusual_spreads
    \/ client_volatility_surface

Spec == Init /\ [][Next]_vars

---------------------------------------------------------------------------
(* Threshold derivation alone: initialize_dynamic_thresholds called on a   *)
(* fresh detector, over every history and chain of the pools               *)

initialize ==
    /\ pc = "idle"
    /\ thresholds = Empty
    /\ \E h \in HistPool, c \in LiquidityChains \cup {NoExpirations} :
          LET r == initialize_dynamic_thresholds(h, c)
          IN  /\ thresholds' = r.thresholds
              /\ threshold_calculator' = r.threshold_calculator
              /\ pc' = IF r.raised THEN "raised" ELSE "idle"
    /\ UNCHANGED <<historical_data, options_data, results, report, interpretation>>

NextThresholds == initialize

SpecThresholds == Init /\ [][NextThresholds]_vars

---------------------------------------------------------------------------
(* The four metric operations alone, on every chain of the pool and with   *)
(* thresholds already cached                                               *)

MetricThresholds ==
    {combine(calculate_volatility_based_threshold([Close |-> h]),
             calculate_liquidity_based_threshold(analyze_options_chain(c).rows)) :
        h \in {history(Window + 1, {}), history(MaxBars, {3, 5})},
        c \in {<<Chain(1, <<Row(100, 3, 4, 4, 10, 50, 30)>>, <<>>)>>,
               <<Chain(1, <<Row(100, 199, 201, 200, 2000, 50, 30)>>, <<>>)>>}}

InitMetrics ==
    /\ thresholds \in MetricThresholds
    /\ threshold_calculator = None
    /\ historical_data = None
    /\ options_data \in {analyze_options_chain(c) : c \in ChainPool}
    /\ put_call_metrics = None
    /\ flow_metrics = None
    /\ unusual_spreads = None
    /\ volatility_skew = None
    /\ report = None
    /\ interpretation = None
    /\ spot = 0
    /\ pc = "idle"

NextMetrics ==
    \/ client_put_call_ratio
    \/ client_options_flow
    \/ client_unusual_spreads
    \/ client_volatility_surface

SpecMetrics == InitMetrics /\ [][NextMetrics]_vars

---------------------------------------------------------------------------
(* The interpreter alone, on every report of a grid of metric values       *)

ReportInputs ==
    {[price_analysis |->
         [current_price |-> 4, daily_return |-> dr, historical_volatility |-> hv,
          momentum_5_day |-> NaN, momentum_20_day |-> NaN],
      options_metrics |->
         [put_call_ratios |-> [volume_put_call_ratio |-> vpc,
                               oi_put_call_ratio |-> Zero],
          options_flow |-> [bullish_flow |-> IF nf > 0 THEN nf ELSE 0,
                            bearish_flow |-> IF nf < 0 THEN -nf ELSE 0,
                            net_flow |-> nf],
          unusual_spreads_count |-> k,
          volatility_skew |-> [skew |-> <<>>]]] :
        dr \in {NaN, <<0, 1>>, <<2, 100>>, <<3, 100>>, <<-3, 100>>, <<5, 100>>,
                <<6, 100>>, <<-6, 100>>},
        hv \in {NaN, <<6, 1>>, <<7, 1>>},
        nf \in {0, 1000000, 2000000, -2000000, 5000000, 6000000, -6000000},
        vpc \in {Zero, <<3, 10>>, <<4, 10>>, <<5, 10>>, <<15, 10>>, <<18, 10>>,
                 <<20, 10>>, <<25, 10>>},
        k \in {0, 1, 5, 6}}

InitInterpret ==
    /\ thresholds = Empty
    /\ threshold_calculator = None
    /\ historical_data = None
    /\ options_data = None
    /\ put_call_metrics = None
    /\ flow_metrics = None
    /\ unusual_spreads = None
    /\ volatility_skew = None
    /\ report \in ReportInputs
    /\ interpretation = None
    /\ spot = 0
    /\ pc = "interpret"

NextInterpret == interpret

SpecInterpret == InitInterpret /\ [][NextInterpret]_vars

---------------------------------------------------------------------------
(* Properties                                                              *)

BaseColumns == {"strike", "bid", "ask", "lastPrice", "volume", "openInterest",
                "impliedVolatility", "type", "expiration", "bid_ask_spread",
                "spread_percentage"}

Project(rows, cols) == [i \in DOMAIN rows |-> [f \in cols |-> rows[i][f]]]

Without(rows, col) ==
    [i \in DOMAIN rows |-> [f \in DOMAIN rows[i] \ {col} |-> rows[i][f]]]

\* C1: the ThresholdSet is computed lazily and once: the thresholds and the
\* calculator change only in a step of track_options_flow or
\* detect_unusual_spreads that starts with empty thresholds, and thresholds
\* that are non-empty are left as they are by every step, whatever the
\* provider returns
C1_ComputedOnceLazily ==
    [][ /\ (thresholds' # thresholds \/ threshold_calculator' # threshold_calculator)
            => /\ thresholds = Empty
               /\ options_data # None
               /\ pc \in {"idle", "track_options_flow", "detect_unusual_spreads"}
        /\ (thresholds # Empty => thresholds' = thresholds) ]_vars

\* thresholds cached, then both operations called on a chain other than the
\* one the thresholds came from
C1_Witness ==
    /\ thresholds # Empty
    /\ flow_metrics # None
    /\ unusual_spreads # None
    /\ Project(threshold_calculator.options_data.rows, BaseColumns)
         # Project(options_data.rows, BaseColumns)

\* C2: in a report run on a fresh detector the thresholds are derived from
\* the history and chain the run fetched for its metrics, and a run that
\* raises returns no report
C2_OneSnapshotOrNothing ==
    [][ /\ (pc = "track_options_flow" /\ thresholds = Empty /\ thresholds' # Empty)
            => /\ threshold_calculator'.historical_data.Close = historical_data.Close
               /\ Project(threshold_calculator'.options_data.rows, BaseColumns)
                    = Project(options_data.rows, BaseColumns)
        /\ (pc' = "raised" => report' = None) ]_vars

\* C3: no contract is counted in both the bullish and the bearish total
C3_NeverBothBuckets ==
    flow_metrics # None =>
        /\ \A i \in DOMAIN options_data.rows :
              ~(bullish_mask(options_data.rows)[i] /\ bearish_mask(options_data.rows)[i])
        /\ flow_metrics.bullish_flow + flow_metrics.bearish_flow
             <= SumSeq(dollar_volume(options_data.rows))

DetectOn(rows, th) ==
    LET df == SetColumn(rows, "spread_z_score",
                        zscore(Column(rows, "spread_percentage")))
    IN  Filter(df, unusual_mask(df, th), 1)

AskPositive(row) == row.ask > 0

\* C4: no flagged contract has ask = 0, and the flagged contracts are those
\* flagged on the chain without its ask = 0 contracts
C4_ZeroAskExcluded ==
    unusual_spreads # None =>
        /\ \A i \in DOMAIN unusual_spreads.rows : unusual_spreads.rows[i].ask # 0
        /\ Project(SelectSeq(unusual_spreads.rows, AskPositive), BaseColumns)
             = Project(DetectOn(SelectSeq(Project(options_data.rows, BaseColumns),
                                          AskPositive),
                                thresholds),
                       BaseColumns)

LatestVolUndefined(hd) ==
    \/ Len(hd.Close) = 0
    \/ ~IsFinite(rolling_std(pct_change(hd.Close, 1))[Len(hd.Close)])

\* C5: with the latest rolling volatility undefined the classification
\* raises and no thresholds are stored
C5_InsufficientHistory ==
    (threshold_calculator # None
        /\ LatestVolUndefined(threshold_calculator.historical_data)) =>
        /\ thresholds = Empty
        /\ Raises(calculate_volatility_based_threshold(
                      threshold_calculator.historical_data))

PutCallRatioCall == report_put_call_ratio \/ client_put_call_ratio

OptionsFlowCall == report_options_flow \/ client_options_flow

UnusualSpreadsCall == report_unusual_spreads \/ client_unusual_spreads

VolatilitySurfaceCall == report_volatility_surface \/ client_volatility_surface

\* C6 as claimed: each of the four metric operations leaves the chain passed
\* to it and the detector's thresholds unchanged
C6_SideEffectFree ==
    [][ (PutCallRatioCall \/ OptionsFlowCall \/ UnusualSpreadsCall
            \/ VolatilitySurfaceCall)
            => UNCHANGED <<options_data, thresholds>> ]_vars

\* C6: calculate_put_call_ratio and analyze_volatility_surface leave the
\* chain and the thresholds unchanged; track_options_flow and
\* detect_unusual_spreads leave every column but the one they write
\* (dollar_volume, spread_z_score) and non-empty thresholds unchanged, write
\* that column when they return, and change thresholds only when empty
C6_Effects ==
    [][ /\ (PutCallRatioCall \/ VolatilitySurfaceCall)
            => UNCHANGED <<options_data, thresholds>>
        /\ OptionsFlowCall
            => /\ Without(options_data'.rows, "dollar_volume")
                    = Without(options_data.rows, "dollar_volume")
               /\ (pc' # "raised" => HasColumn(options_data'.rows, "dollar_volume"))
               /\ (thresholds # Empty => thresholds' = thresholds)
        /\ UnusualSpreadsCall
            => /\ Without(options_data'.rows, "spread_z_score")
                    = Without(options_data.rows, "spread_z_score")
               /\ (pc' # "raised" => HasColumn(options_data'.rows, "spread_z_score"))
               /\ (thresholds # Empty => thresholds' = thresholds) ]_vars

\* the four operations have run on one chain in a report run
C6_Witness ==
    /\ pc = "compile"
    /\ thresholds # Empty
    /\ HasColumn(options_data.rows, "dollar_volume")
    /\ HasColumn(options_data.rows, "spread_z_score")
    /\ ~HasColumn(options_data.rows, "relative_spread")

\* C7: every expiration in the skew mapping has a defined average, taken
\* over at least one existing cell among the two strikes closest to spot
C7_SkewDefined ==
    volatility_skew # None =>
        \A exp \in DOMAIN volatility_skew.skew :
            /\ IsFinite(volatility_skew.skew[exp])
            /\ LET index == pivot_index(options_data.rows)
               IN  \E k \in closest_strikes(index, spot) :
                      \E i \in DOMAIN options_data.rows :
                          /\ options_data.rows[i].strike = index[k]
                          /\ options_data.rows[i].expiration = exp

\* the inputs of the regime tables, taken from the calculator's data
C8_Rank ==
    LET close == threshold_calculator.historical_data.Close
    IN  rank_pct(rolling_std(pct_change(close, 1)), Len(close))

C8_LatestVol ==
    LET close == threshold_calculator.historical_data.Close
    IN  rolling_std(pct_change(close, 1))[Len(close)]

C8_MedianSpread ==
    median(Column(threshold_calculator.options_data.rows, "relative_spread"))

C8_MedianVolume ==
    median([i \in DOMAIN threshold_calculator.options_data.rows |->
               <<threshold_calculator.options_data.rows[i].volume, 1>>])

VolatilityRegime ==
    CASE Gt(C8_Rank, <<8, 10>>) -> "HIGH"
      [] Lt(C8_Rank, <<2, 10>>) -> "LOW"
      [] OTHER -> "MEDIUM"

LiquidityRegime ==
    IF Gt(C8_MedianSpread, <<5, 100>>) \/ Lt(C8_MedianVolume, <<100, 1>>) THEN "LOW"
    ELSE IF Lt(C8_MedianSpread, <<2, 100>>) /\ Gt(C8_MedianVolume, <<1000, 1>>)
    THEN "HIGH"
    ELSE "MEDIUM"

VolatilityTable ==
    [HIGH   |-> [price_move |-> 5,  volume |-> 25, iv |-> 18],
     LOW    |-> [price_move |-> 15, volume |-> 40, iv |-> 25],
     MEDIUM |-> [price_move |-> 10, volume |-> 30, iv |-> 20]]

LiquidityTable ==
    [LOW    |-> [spread |-> 30, multiplier |-> 20, oi |-> 15],
     HIGH   |-> [spread |-> 50, multiplier |-> 40, oi |-> 25],
     MEDIUM |-> [spread |-> 40, multiplier |-> 30, oi |-> 20]]

\* C8: for a defined rank and defined medians the stored thresholds are the
\* rows of the two tables for the two regimes, each regime chosen on its own
\* input, and the volume threshold is the product of the volatility row's
\* volume threshold and the liquidity row's multiplier
C8_TableLookup ==
    (thresholds # Empty /\ IsFinite(C8_Rank) /\ IsFinite(C8_MedianSpread)
        /\ IsFinite(C8_MedianVolume)) =>
        LET v == VolatilityTable[VolatilityRegime]
            l == LiquidityTable[LiquidityRegime]
        IN  /\ thresholds = [price_move |-> [factor |-> v.price_move,
                                             vol |-> C8_LatestVol],
                             volume |-> v.volume * l.multiplier,
                             iv |-> v.iv, spread |-> l.spread, oi |-> l.oi]
            /\ (Eq(C8_Rank, <<2, 10>>) \/ Eq(C8_Rank, <<8, 10>>)
                    => thresholds.iv = 20)

\* rank 0.2, median spread 0.05 and median volume 100, all on the boundary
C8_Witness ==
    /\ thresholds # Empty
    /\ Eq(C8_Rank, <<2, 10>>)
    /\ Eq(C8_MedianSpread, <<5, 100>>)
    /\ Eq(C8_MedianVolume, <<100, 1>>)
    /\ thresholds.volume = 900

RECURSIVE Total(_, _, _, _)
Total(rows, type, col, n) ==
    IF n = 0 THEN 0
    ELSE Total(rows, type, col, n - 1)
         + (IF rows[n].type = type THEN rows[n][col] ELSE 0)

CallVolume == Total(options_data.rows, "call", "volume", Len(options_data.rows))

PutVolume == Total(options_data.rows, "put", "volume", Len(options_data.rows))

CallOi == Total(options_data.rows, "call", "openInterest", Len(options_data.rows))

PutOi == Total(options_data.rows, "put", "openInterest", Len(options_data.rows))

\* C9: each ratio is exactly 0 when its own call total is 0 and the quotient
\* of the put total by the call total otherwise
C9_GuardedRatios ==
    put_call_metrics # None =>
        /\ put_call_metrics.volume_put_call_ratio
             = (IF CallVolume = 0 THEN <<0, 1>> ELSE <<PutVolume, CallVolume>>)
        /\ put_call_metrics.oi_put_call_ratio
             = (IF CallOi = 0 THEN <<0, 1>> ELSE <<PutOi, CallOi>>)

\* no call volume but put volume, and call open interest: one guard applies
C9_Witness ==
    /\ put_call_metrics # None
    /\ CallVolume = 0 /\ PutVolume > 0
    /\ CallOi > 0 /\ PutOi > 0
    /\ put_call_metrics.volume_put_call_ratio = <<0, 1>>
    /\ put_call_metrics.oi_put_call_ratio # <<0, 1>>

CategoryOrder == <<"price", "volatility", "flow", "put_call", "spreads">>

Position(category) == CHOOSE i \in DOMAIN CategoryOrder : CategoryOrder[i] = category

============================================================================
